---- MODULE Spec2Model ----
(***************************************************************************)
(* Model of tools/babel.py, the transpile invoker: it reads two command    *)
(* line arguments, resolves SOURCE_ROOT from the script's own location,    *)
(* rewrites the output path with str.replace and runs                      *)
(*   node <root>/node_modules/.bin/babel <cwd>/<in> -o <out'> ...          *)
(* through subprocess.check_call, blocking until the child terminates.     *)
(* Paths are sequences of one-character strings, so that the textual       *)
(* operations (replace, dirname, abspath, +) act on characters.            *)
(***************************************************************************)
EXTENDS Integers, Sequences, FiniteSets

(* ---------------------------- bounds ----------------------------------- *)
\* longest output path, counted in fragments of OutFragments
MaxFrags == 3
\* largest number of command line arguments after the script name
MaxArgs == 2
\* largest positive exit status of the child
MaxStatus == 2
\* largest signal number that can kill the child (returncode = -signal)
MaxSignal == 1

(* ------------------------ string literals of the script ---------------- *)
Old == <<".", ".", "/", ".", ".", "/", "e", "l", "e", "c", "t", "r", "o", "n", "/", "s", "r", "c", "/">>
New == <<"e", "l", "e", "c", "t", "r", "o", "n", "/", "s", "r", "c", "/">>
Node == <<"n", "o", "d", "e">>
BabelBin == <<"/", "n", "o", "d", "e", "_", "m", "o", "d", "u", "l", "e", "s", "/", ".", "b", "i", "n", "/", "b", "a", "b", "e", "l">>
DashO == <<"-", "o">>
SourceMaps == <<"-", "-", "s", "o", "u", "r", "c", "e", "-", "m", "a", "p", "s">>
Inline == <<"i", "n", "l", "i", "n", "e">>
ConfigFile == <<"-", "-", "c", "o", "n", "f", "i", "g", "-", "f", "i", "l", "e">>
BabelRc == <<"/", ".", "b", "a", "b", "e", "l", "r", "c">>
Slash == <<"/">>

(* ------------------------ inputs of a run ------------------------------ *)
OutFragments ==
  { <<".", ".", "/">>,
    <<".", ".", "/", ".", ".", "/">>,
    <<"e", "l", "e", "c", "t", "r", "o", "n", "/", "s", "r", "c", "/">>,
    <<".", ".", "/", ".", ".", "/", "e", "l", "e", "c", "t", "r", "o", "n", "/", "s", "r", "c", "/">>,
    <<"o", "u", "t", ".", "j", "s">>,
    <<".", ".", "\\", ".", ".", "\\", "e", "l", "e", "c", "t", "r", "o", "n", "\\", "s", "r", "c", "\\">> }

RECURSIVE Concat(_)
Concat(ss) == IF ss = <<>> THEN <<>> ELSE Head(ss) \o Concat(Tail(ss))

OutPaths ==
  { Concat(fs) : fs \in UNION { [1..n -> OutFragments] : n \in 0..MaxFrags } }

InFiles == { <<"a", "/", "b", ".", "j", "s">>, <<"x", ".", "j", "s">> }
ExtraArg == <<"e", "x", "t", "r", "a">>
\* how the script is started: <<__file__, working directory>>
Launches ==
  { << <<"/", "r", "/", "t", "o", "o", "l", "s", "/", "b", "a", "b", "e", "l", ".", "p", "y">>, <<"/", "w">> >>,
    << <<".", "/", "t", "o", "o", "l", "s", "/", "b", "a", "b", "e", "l", ".", "p", "y">>, <<"/", "r", "/", "e", "l", "e", "c", "t", "r", "o", "n">> >> }

\* sys.argv for n arguments: the script name, then in, out and ignored extras
Argvs(script, outs) ==
  { <<script>> } \cup
  { <<script, i>> : i \in InFiles } \cup
  { <<script, i, o>> \o [k \in 1..n |-> ExtraArg] :
      i \in InFiles, o \in outs, n \in 0..(MaxArgs - 2) }

ChildStatuses == (0 - MaxSignal)..MaxStatus

(* ------------------------ str.replace ---------------------------------- *)
StartsWithAt(s, i, old) ==
  /\ i + Len(old) - 1 <= Len(s)
  /\ SubSeq(s, i, i + Len(old) - 1) = old

\* one left-to-right pass; the scan resumes after each replaced occurrence
RECURSIVE ReplaceFrom(_, _, _, _)
ReplaceFrom(s, i, old, new) ==
  IF i > Len(s) THEN <<>>
  ELSE IF StartsWithAt(s, i, old)
       THEN new \o ReplaceFrom(s, i + Len(old), old, new)
       ELSE <<s[i]>> \o ReplaceFrom(s, i + 1, old, new)

\* str.replace(old, new, 1): only the first occurrence is replaced
RECURSIVE ReplaceFirstFrom(_, _, _, _)
ReplaceFirstFrom(s, i, old, new) ==
  IF i > Len(s) THEN <<>>
  ELSE IF StartsWithAt(s, i, old)
       THEN new \o SubSeq(s, i + Len(old), Len(s))
       ELSE <<s[i]>> \o ReplaceFirstFrom(s, i + 1, old, new)

replace_first(s, old, new) == ReplaceFirstFrom(s, 1, old, new)

replace(s, old, new) == ReplaceFrom(s, 1, old, new)

\* the two arguments of replace exchanged
rewrite_swapped(out) == replace(out, New, Old)

\* the replacement loses the directory "electron/"
rewrite_wrong_new(out) == replace(out, Old, <<"s", "r", "c", "/">>)

\* the pattern has one "../" too few
rewrite_short_old(out) == replace(out, <<".", ".", "/", "e", "l", "e", "c", "t", "r", "o", "n", "/", "s", "r", "c", "/">>, New)

rewrite(out) == replace(out, Old, New)

(* ------------------------ os.path (posixpath) -------------------------- *)
isabs(p) == Len(p) > 0 /\ p[1] = "/"

join(a, b) ==
  IF isabs(b) THEN b
  ELSE IF a = <<>> \/ a[Len(a)] = "/" THEN a \o b
  ELSE a \o Slash \o b

\* the components of p between slashes
RECURSIVE SplitFrom(_, _, _)
SplitFrom(p, i, cur) ==
  IF i > Len(p) THEN <<cur>>
  ELSE IF p[i] = "/" THEN <<cur>> \o SplitFrom(p, i + 1, <<>>)
  ELSE SplitFrom(p, i + 1, Append(cur, p[i]))

RECURSIVE NormComps(_, _, _)
NormComps(comps, acc, abs) ==
  IF comps = <<>> THEN acc
  ELSE LET c == Head(comps)
           rest == Tail(comps)
       IN IF c = <<>> \/ c = <<".">> THEN NormComps(rest, acc, abs)
          ELSE IF c # <<".", ".">> THEN NormComps(rest, Append(acc, c), abs)
          ELSE IF acc # <<>> /\ acc[Len(acc)] # <<".", ".">>
               THEN NormComps(rest, SubSeq(acc, 1, Len(acc) - 1), abs)
          ELSE IF abs THEN NormComps(rest, acc, abs)
          ELSE NormComps(rest, Append(acc, c), abs)

RECURSIVE JoinComps(_)
JoinComps(comps) ==
  IF comps = <<>> THEN <<>>
  ELSE IF Len(comps) = 1 THEN Head(comps)
  ELSE Head(comps) \o Slash \o JoinComps(Tail(comps))

normpath(p) ==
  LET body == JoinComps(NormComps(SplitFrom(p, 1, <<>>), <<>>, isabs(p)))
  IN IF isabs(p) THEN Slash \o body
     ELSE IF body = <<>> THEN <<".">> ELSE body

abspath(p, wd) == normpath(join(wd, p))

RECURSIVE rstripSlash(_)
rstripSlash(p) ==
  IF p # <<>> /\ p[Len(p)] = "/" THEN rstripSlash(SubSeq(p, 1, Len(p) - 1))
  ELSE p

dirname(p) ==
  LET slashes == { i \in 1..Len(p) : p[i] = "/" }
      last == IF slashes = {} THEN 0
              ELSE CHOOSE i \in slashes : \A j \in slashes : j <= i
      head == SubSeq(p, 1, last)
  IN IF head # <<>> /\ rstripSlash(head) # <<>> THEN rstripSlash(head)
     ELSE head

(* ------------------------ state ---------------------------------------- *)
VARIABLES
  argv,          \* sys.argv, argv[1] being the script name (sys.argv[0])
  cwd,           \* os.getcwd()
  nodeRunnable,  \* "node" can be found on PATH and executed
  babelExists,   \* <root>/node_modules/.bin/babel exists
  pc,            \* the statement the invoker is at
  in_file, out_file, SOURCE_ROOT,
  cmd,           \* the argument list given to subprocess.check_call
  child,         \* "none", "running" or "exited"
  returncode,    \* the child's exit status, once child = "exited"
  spawns,        \* number of child processes started
  error,         \* the uncaught exception, "none" if there is none
  exit_status    \* the invoker's exit status, once pc = "exit"

vars == <<argv, cwd, nodeRunnable, babelExists, pc, in_file, out_file,
          SOURCE_ROOT, cmd, child, returncode, spawns, error, exit_status>>

env == <<argv, cwd, nodeRunnable, babelExists>>

\* the state before line 6, for a set of output paths
Start(outs) ==
  /\ \E l \in Launches :
       /\ argv \in Argvs(l[1], outs)
       /\ cwd = l[2]
  /\ nodeRunnable \in BOOLEAN
  /\ babelExists \in BOOLEAN
  /\ pc = "line6"
  /\ in_file = <<>>
  /\ out_file = <<>>
  /\ SOURCE_ROOT = <<>>
  /\ cmd = <<>>
  /\ child = "none"
  /\ returncode = 0
  /\ spawns = 0
  /\ error = "none"
  /\ exit_status = 0

Init == Start(OutPaths)

\* the output paths of one fragment at most
ShortPaths == OutFragments \cup {<<>>}

InitShort == Start(ShortPaths)

(* ------------------------ the interpreter ------------------------------ *)
\* the exit status of the interpreter: 1 after an uncaught exception
ExitCode_mirror(err, rc) ==
  IF err = "none" THEN 0
  ELSE IF err = "CalledProcessError" THEN rc
  ELSE 1

ExitCode(err, rc) == IF err = "none" THEN 0 ELSE 1

\* an uncaught exception ends the script
Raise(err) ==
  /\ error' = err
  /\ exit_status' = ExitCode(err, returncode)
  /\ pc' = "exit"

\* sys.argv[i], i counted from 0, exists
HasArg(i) == i < Len(argv)

\* subprocess.call: the return code is not checked
CheckFails_never(rc) == FALSE

\* check_call raises CalledProcessError on this return code
CheckFails(rc) == rc # 0

\* the transpiler binary executed directly
CanLaunch_babel == nodeRunnable /\ babelExists

\* the program file that Popen executes is args[0]
CanLaunch == nodeRunnable

\* the list without the interpreter in front
Command_no_node(root, wd, inf, outf) ==
  << root \o BabelBin,
     wd \o Slash \o inf,
     DashO,
     rewrite(outf),
     SourceMaps,
     Inline,
     ConfigFile,
     root \o BabelRc >>

\* the list literal of lines 12-22
Command(root, wd, inf, outf) ==
  << Node,
     root \o BabelBin,
     wd \o Slash \o inf,
     DashO,
     rewrite(outf),
     SourceMaps,
     Inline,
     ConfigFile,
     root \o BabelRc >>

(* ------------------------ steps of the script -------------------------- *)
\* line 6: in_file = sys.argv[1]
ReadInFile ==
  /\ pc = "line6"
  /\ IF HasArg(1)
     THEN /\ in_file' = argv[2]
          /\ pc' = "line7"
          /\ UNCHANGED <<error, exit_status>>
     ELSE /\ Raise("IndexError")
          /\ UNCHANGED in_file
  /\ UNCHANGED <<env, out_file, SOURCE_ROOT, cmd, child, returncode, spawns>>

\* a missing second argument read as the empty string
ReadOutFile_unchecked ==
  /\ pc = "line7"
  /\ out_file' = IF HasArg(2) THEN argv[3] ELSE <<>>
  /\ pc' = "line9"
  /\ UNCHANGED <<env, in_file, SOURCE_ROOT, cmd, child, returncode, spawns,
                 error, exit_status>>

\* line 7: out_file = sys.argv[2]
ReadOutFile ==
  /\ pc = "line7"
  /\ IF HasArg(2)
     THEN /\ out_file' = argv[3]
          /\ pc' = "line9"
          /\ UNCHANGED <<error, exit_status>>
     ELSE /\ Raise("IndexError")
          /\ UNCHANGED out_file
  /\ UNCHANGED <<env, in_file, SOURCE_ROOT, cmd, child, returncode, spawns>>

\* line 9: SOURCE_ROOT = dirname(dirname(abspath(__file__)))
ComputeRoot ==
  /\ pc = "line9"
  /\ \E file \in {abspath(argv[1], cwd)} :
       \E dir \in {dirname(file)} :
         SOURCE_ROOT' = dirname(dir)
  /\ pc' = "line11"
  /\ UNCHANGED <<env, in_file, out_file, cmd, child, returncode, spawns,
                 error, exit_status>>

\* lines 11-23, first half: build the list and start the child
Spawn ==
  /\ pc = "line11"
  /\ cmd' = Command(SOURCE_ROOT, cwd, in_file, out_file)
  /\ IF CanLaunch
     THEN /\ child' = "running"
          /\ spawns' = spawns + 1
          /\ pc' = "wait"
          /\ UNCHANGED <<error, exit_status>>
     ELSE /\ Raise("OSError")
          /\ UNCHANGED <<child, spawns>>
  /\ UNCHANGED <<env, in_file, out_file, SOURCE_ROOT, returncode>>

\* the child terminates by itself; node cannot succeed without its script
ChildExit ==
  /\ child = "running"
  /\ \E k \in ChildStatuses :
       /\ babelExists \/ k # 0
       /\ returncode' = k
  /\ child' = "exited"
  /\ UNCHANGED <<env, pc, in_file, out_file, SOURCE_ROOT, cmd, spawns,
                 error, exit_status>>

\* Popen without wait(): the script goes on while the child runs
WaitReturn_nowait ==
  /\ pc = "wait"
  /\ IF child = "exited" /\ CheckFails(returncode)
     THEN Raise("CalledProcessError")
     ELSE /\ pc' = "exit"
          /\ exit_status' = ExitCode(error, returncode)
          /\ UNCHANGED error
  /\ UNCHANGED <<env, in_file, out_file, SOURCE_ROOT, cmd, child, returncode,
                 spawns>>

\* lines 11-23, second half: wait() returns and the return code is checked
WaitReturn ==
  /\ pc = "wait"
  /\ child = "exited"
  /\ IF CheckFails(returncode)
     THEN Raise("CalledProcessError")
     ELSE /\ pc' = "exit"
          /\ exit_status' = ExitCode(error, returncode)
          /\ UNCHANGED error
  /\ UNCHANGED <<env, in_file, out_file, SOURCE_ROOT, cmd, child, returncode,
                 spawns>>

Next ==
  \/ ReadInFile
  \/ ReadOutFile
  \/ ComputeRoot
  \/ Spawn
  \/ ChildExit
  \/ WaitReturn

Spec == Init /\ [][Next]_vars

\* the interpreter always runs its next statement; the child need not exit
\* and waiting does not depend on the text of the output path
FairSpec ==
  /\ InitShort
  /\ [][Next]_vars
  /\ WF_vars(ReadInFile)
  /\ WF_vars(ReadOutFile)
  /\ WF_vars(ComputeRoot)
  /\ WF_vars(Spawn)
  /\ WF_vars(WaitReturn)

(* ------------------------ properties ----------------------------------- *)
\* positions of s at which the literal "../../electron/src/" starts
Occurrences(s) == { i \in 1..Len(s) : StartsWithAt(s, i, Old) }

DotDotTwice == <<".", ".", "/", ".", ".", "/">>

\* the occurrence at i directly follows "../../"
Preceded(s, i) ==
  i > Len(DotDotTwice) /\ SubSeq(s, i - Len(DotDotTwice), i - 1) = DotDotTwice

\* the list was built and the child was started with it
Launched == child # "none"

\* the output path the child receives, the element after "-o"
OutArg == cmd[5]

\* C1 (as stated): whenever the output path holds the substring exactly
\* once, rewriting the rewritten path again changes nothing.
C1_IdempotentExactlyOnce ==
  (Launched /\ Cardinality(Occurrences(out_file)) = 1)
    => rewrite(OutArg) = OutArg

\* C1 (amended): whenever the output path holds the substring exactly once
\* and that occurrence does not directly follow "../../", rewriting the
\* rewritten path again changes nothing.
C1_IdempotentNotPreceded ==
  (/\ Launched
   /\ Cardinality(Occurrences(out_file)) = 1
   /\ \A i \in Occurrences(out_file) : ~Preceded(out_file, i))
    => rewrite(OutArg) = OutArg

C1_Witness ==
  /\ Launched
  /\ Cardinality(Occurrences(out_file)) = 1
  /\ \A i \in Occurrences(out_file) : ~Preceded(out_file, i)
  /\ OutArg # out_file
  /\ Len(out_file) > Len(Old)

\* C2: an output path p + "../../electron/src/" + q holding the substring
\* exactly once reaches the child as p + "electron/src/" + q.
C2_ExactlyOnceReplaced ==
  (Launched /\ Cardinality(Occurrences(out_file)) = 1)
    => \A i \in Occurrences(out_file) :
         OutArg = SubSeq(out_file, 1, i - 1) \o New
                    \o SubSeq(out_file, i + Len(Old), Len(out_file))

C2_Witness ==
  /\ Launched
  /\ Cardinality(Occurrences(out_file)) = 1
  /\ \E i \in Occurrences(out_file) : i > 1 /\ i + Len(Old) <= Len(out_file)

\* C3: an output path without the substring reaches the child unchanged,
\* right after "-o".
C3_AbsentUnchanged ==
  (Launched /\ Occurrences(out_file) = {})
    => (cmd[4] = DashO /\ OutArg = out_file)

C3_Witness ==
  /\ Launched
  /\ Occurrences(out_file) = {}
  /\ \E i \in 1..Len(out_file) : StartsWithAt(out_file, i, <<".", ".", "/", "e", "l", "e", "c", "t", "r", "o", "n", "/", "s", "r", "c", "/">>)
  /\ OutArg = out_file

\* the child has terminated and the invoker has terminated after it
BothDone == pc = "exit" /\ child = "exited"

\* C4 (as stated): when the child exits with a non-zero status k, the
\* invoker exits with status k.
C4_ExitMirrorsChild ==
  (BothDone /\ returncode # 0) => exit_status = returncode

\* C4 (amended): when the child exits with a non-zero status k, the invoker
\* ends by the uncaught CalledProcessError with exit status 1, whatever k is.
C4_ExitOneOnFailure ==
  (BothDone /\ returncode # 0)
    => (error = "CalledProcessError" /\ exit_status = 1)

C4_Witness == BothDone /\ returncode = 2 /\ exit_status = 1

\* C5: with two arguments and a child that has terminated, the invoker's
\* exit status is zero exactly if the child's is, and no second child is
\* ever started.
C5_ZeroIffChildZero ==
  /\ spawns <= 1
  /\ (BothDone /\ Len(argv) >= 3) => (exit_status = 0 <=> returncode = 0)

C5_Witness == BothDone /\ returncode # 0 /\ exit_status # 0 /\ spawns = 1

\* C6: with fewer than two arguments no child is ever started, the spawn
\* step is never reached, and the run ends by the missing-argument failure.
C6_TooFewArgsNoSpawn ==
  Len(argv) < 3
    => /\ child = "none"
       /\ spawns = 0
       /\ cmd = <<>>
       /\ pc \in {"line6", "line7", "exit"}
       /\ pc = "exit" => (error = "IndexError" /\ exit_status # 0)

C6_Witness == Len(argv) = 2 /\ pc = "exit" /\ in_file # <<>> /\ spawns = 0

\* the root the script resolves for the script names of Launches
ExpectedRoot == IF isabs(argv[1]) THEN <<"/", "r">> ELSE cwd

ExpectedArgs ==
  << cwd \o Slash \o argv[2], DashO, rewrite(argv[3]), SourceMaps, Inline,
     ConfigFile, ExpectedRoot \o BabelRc >>

\* C7 (as stated): the program launched is <root>/node_modules/.bin/babel
\* and its arguments are <cwd>/in, -o, rewrite(out), --source-maps, inline,
\* --config-file, <root>/.babelrc with nothing before them.
C7_BabelLaunchedDirectly ==
  Launched
    => (cmd[1] = ExpectedRoot \o BabelBin /\ Tail(cmd) = ExpectedArgs)

\* C7 (amended): the program launched is node; its arguments are
\* <root>/node_modules/.bin/babel first and then, in this order, <cwd>/in,
\* -o, rewrite(out), --source-maps, inline, --config-file, <root>/.babelrc;
\* for in = a/b.js and out = ../../electron/src/out.js the input is
\* <cwd>/a/b.js and the output is electron/src/out.js.
C7_NodeRunsBabel ==
  Launched
    => /\ cmd = <<Node, ExpectedRoot \o BabelBin>> \o ExpectedArgs
       /\ (argv[2] = <<"a", "/", "b", ".", "j", "s">> /\ argv[3] = <<".", ".", "/", ".", ".", "/", "e", "l", "e", "c", "t", "r", "o", "n", "/", "s", "r", "c", "/", "o", "u", "t", ".", "j", "s">>)
            => (cmd[3] = cwd \o <<"/", "a", "/", "b", ".", "j", "s">> /\ OutArg = <<"e", "l", "e", "c", "t", "r", "o", "n", "/", "s", "r", "c", "/", "o", "u", "t", ".", "j", "s">>)

C7_Witness ==
  /\ Launched
  /\ argv[2] = <<"a", "/", "b", ".", "j", "s">>
  /\ argv[3] = <<".", ".", "/", ".", ".", "/", "e", "l", "e", "c", "t", "r", "o", "n", "/", "s", "r", "c", "/", "o", "u", "t", ".", "j", "s">>
  /\ OutArg = <<"e", "l", "e", "c", "t", "r", "o", "n", "/", "s", "r", "c", "/", "o", "u", "t", ".", "j", "s">>

\* C8: the invoker is never terminated while the child runs, it takes no
\* step of its own while the child runs, and once the child has terminated
\* the invoker eventually terminates.
C8_BlocksOnChild ==
  /\ [](pc = "exit" => child # "running")
  /\ [][child = "running" => (pc' = pc /\ exit_status' = exit_status)]_vars
  /\ (child = "exited") ~> (pc = "exit")

C8_Witness == BothDone /\ spawns = 1

\* C9 (as stated): when <root>/node_modules/.bin/babel does not exist, the
\* run fails by a launch error at the spawn step and no child ran.
C9_MissingBabelIsLaunchError ==
  (pc = "exit" /\ Len(argv) >= 3 /\ ~babelExists)
    => (error = "OSError" /\ child = "none")

\* C9 (amended): when node cannot be found or run, the run fails by a
\* launch error at the spawn step and no child ran; when only
\* <root>/node_modules/.bin/babel is missing, node is started with that
\* path as its argument and the failure is the non-zero exit status of
\* that child.
C9_MissingNodeIsLaunchError ==
  (pc = "exit" /\ Len(argv) >= 3)
    => /\ ~nodeRunnable
            => (error = "OSError" /\ child = "none" /\ spawns = 0
                /\ exit_status = 1)
       /\ (nodeRunnable /\ ~babelExists)
            => (error = "CalledProcessError" /\ child = "exited"
                /\ spawns = 1 /\ returncode # 0)

C9_Witness ==
  /\ pc = "exit"
  /\ ~nodeRunnable
  /\ error = "OSError"
  /\ cmd # <<>>

\* C10: every occurrence of the substring in the argument loses its leading
\* "../../" in one pass, every other character is kept in place and order,
\* and the result is not scanned again.
C10_SinglePassAllOccurrences ==
  Launched
    => \A occ \in {Occurrences(out_file)} :
         LET n == Len(DotDotTwice)
             dropped(j) == \E i \in occ : i <= j /\ j < i + n
             shift(j) == n * Cardinality({ i \in occ : i < j })
         IN /\ Len(OutArg) = Len(out_file) - n * Cardinality(occ)
            /\ \A j \in 1..Len(out_file) :
                 ~dropped(j) => OutArg[j - shift(j)] = out_file[j]

C10_Witness ==
  /\ Launched
  /\ Cardinality(Occurrences(out_file)) >= 2
  /\ Occurrences(OutArg) # {}

====
